---- MODULE Spec2Model ----
(***************************************************************************)
(* Model of src/io/iologindata.cpp (IOLoginData): the online-presence      *)
(* tracker (updateOnlineStatus), the load pipeline (loadPlayer), the save  *)
(* pipeline (savePlayer / savePlayerGuard) and the authentication gate     *)
(* (gameWorldAuthentication).                                              *)
(*                                                                         *)
(* The four subsystems share no state in the code, so each one has its own *)
(* specification over its own variables; the variables of the other        *)
(* subsystems stay at their initial values.                                *)
(***************************************************************************)
EXTENDS Integers, Sequences, FiniteSets, TLC

VARIABLES
    \* ---- online-presence tracker (updateOnlineStatus) ----
    updateOnline,     \* keys of the static phmap::flat_hash_map<uint32_t, bool>
    playersOnline,    \* the "players_online" up/down counter of g_metrics()
    tableOnline,      \* rows of table `players_online`: guid -> number of rows
    calls,            \* the last calls of updateOnlineStatus, oldest first
    \* ---- sessions calling updateOnlineStatus from their own threads ----
    tpc,              \* session -> position inside updateOnlineStatus
    targ,             \* session -> arguments of its call in progress / last call
    tdone,            \* session -> number of calls it has completed
    inserts,          \* guid -> number of INSERT queries issued for it
    \* ---- load pipeline (loadPlayer) ----
    lpc,              \* "idle", "run" (inside the try block) or "done" (returned)
    lstep,            \* position in the try block: index of the next sub-loader
    larg,             \* arguments of the run: result / player null, disableIrrelevantInfo
    loaded,           \* sub-loaders invoked by the run, in order of invocation
    lfault,           \* the sub-loader that threw in this run and what it threw
    lret,             \* value returned by loadPlayer: "true", "false", "none" while running
    \* ---- save pipeline (savePlayer / savePlayerGuard) ----
    playerVer,        \* generation of the in-memory player: what its facets hold
    stored,           \* committed store: facet (named by its sub-saver) -> its rows,
                      \* each row the generation of the player that wrote it
    txn,              \* the store as seen inside the open transaction
    storedBefore,     \* the committed store when the current run began
    spc,              \* "idle", "guard", "threw", "returned" or "done"
    sstep,            \* position in savePlayerGuard: index of the next sub-saver
    sarg,             \* arguments of the run: player null or not, its generation
    saved,            \* sub-savers invoked by the run, in order of invocation
    sfault,           \* the failure raised in this run: failing step and message
    sret,             \* value returned by savePlayer: "true", "false", "none" while running
    slog,             \* errors logged by savePlayer in this run
    sprev,            \* the previous run: the player's generation and the result
    \* ---- authentication gate (gameWorldAuthentication) ----
    world,            \* what the call runs against: AUTH_TYPE, the account's roster,
                      \* whether its session is valid
    apc,              \* "idle", "load", "authenticate", "reload", "roster", "check", "done"
    aarg,             \* arguments of the call
    accountId,        \* the uint32_t &accountId of the caller
    atrace,           \* steps the call has performed, in order
    aret,             \* value returned: "true", "false", "none" while running
    afail,            \* the step at which the call failed, "" when none has
    aoks,             \* outcomes of the store accesses of the call, in order
    aprev,            \* the previous call: its arguments, store outcomes and result
    \* ---- savePlayer run by two sessions, each for its own player ----
    dver,             \* player -> generation of the in-memory player
    dstore,           \* committed store: player -> facet -> rows of that player
    duo               \* player -> the savePlayer run of its session: position, unit
                      \* of work, failure, and the generation last committed

onlineVars == <<updateOnline, playersOnline, tableOnline, calls>>

sessionVars == <<tpc, targ, tdone, inserts>>

loadVars == <<lpc, lstep, larg, loaded, lfault, lret>>

saveVars == <<playerVer, stored, txn, storedBefore, spc, sstep, sarg, saved,
              sfault, sret, slog, sprev>>

authVars == <<world, apc, aarg, accountId, atrace, aret, afail, aoks, aprev>>

duoVars == <<dver, dstore, duo>>

vars == <<onlineVars, sessionVars, loadVars, saveVars, authVars, duoVars>>

\* what each subsystem leaves alone
notOnline == <<sessionVars, loadVars, saveVars, authVars, duoVars>>

notSessions == <<loadVars, saveVars, authVars, duoVars>>

notLoad == <<onlineVars, sessionVars, saveVars, authVars, duoVars>>

notSave == <<onlineVars, sessionVars, loadVars, authVars, duoVars>>

notAuth == <<onlineVars, sessionVars, loadVars, saveVars, duoVars>>

notDuo == <<onlineVars, sessionVars, loadVars, saveVars, authVars>>

(***************************************************************************)
(* Bounds of the model.                                                    *)
(***************************************************************************)
MaxGuid == 2      \* guids are 0..MaxGuid (uint32_t, 0 is the only non-positive one)
MaxDebt == 2      \* the counter is followed down to -MaxDebt
HistLen == 3      \* number of calls remembered in `calls`
NumSessions == 2  \* sessions (threads) calling updateOnlineStatus concurrently
MaxCalls == 2     \* calls each concurrent session makes
MaxVer == 2       \* generations of the in-memory player

Guids == 0..MaxGuid

(***************************************************************************)
(* updateOnlineStatus, lines 70-87.                                        *)
(***************************************************************************)

\* line 72 without the test of the map, and without the test of guid
EarlyReturnNoDedup(map, guid, login) == guid <= 0

EarlyReturnNoGuidCheck(map, guid, login) == login /\ guid \in map

\* line 72:  if (login && updateOnline.find(guid) != updateOnline.end() || guid <= 0) return;
\* (&& binds tighter than ||; guid is unsigned, so guid <= 0 is guid = 0)
EarlyReturn(map, guid, login) == (login /\ guid \in map) \/ guid <= 0

\* lines 78 and 82: g_metrics().addUpDownCounter("players_online", +1 / -1)
CounterAfter(cnt, login) == IF login THEN cnt + 1 ELSE cnt - 1

\* line 84 without the erase
MapAfterNoErase(map, guid, login) == IF login THEN map \cup {guid} ELSE map

\* lines 80 and 84: updateOnline[guid] = true / updateOnline.erase(guid)
MapAfter(map, guid, login) == IF login THEN map \cup {guid} ELSE map \ {guid}

\* lines 79 and 83: the query text built for the call
QueryFor(guid, login) ==
    IF login THEN [op |-> "INSERT", player_id |-> guid]
             ELSE [op |-> "DELETE", player_id |-> guid]

\* line 86: Database::getInstance().executeQuery(query.str()) on `players_online`
\* INSERT INTO `players_online` VALUES (guid) adds a row;
\* DELETE FROM `players_online` WHERE `player_id` = guid removes every row of guid.
ExecuteQuery(rows, q) ==
    IF q.op = "INSERT"
    THEN [rows EXCEPT ![q.player_id] = @ + 1]
    ELSE [rows EXCEPT ![q.player_id] = 0]

\* the record of one call kept in `calls`
CallRecord(guid, login, map1, cnt1, rows1, qs) ==
    [guid |-> guid, login |-> login,
     map0 |-> updateOnline, map1 |-> map1,
     cnt0 |-> playersOnline, cnt1 |-> cnt1,
     rows0 |-> tableOnline, rows1 |-> rows1,
     queries |-> qs]

Remember(rec) ==
    IF Len(calls) < HistLen THEN Append(calls, rec) ELSE Append(Tail(calls), rec)

\* the whole handler, run by one thread without interleaving
updateOnlineStatus(guid, login) ==
    IF EarlyReturn(updateOnline, guid, login)
    THEN /\ calls' = Remember(CallRecord(guid, login, updateOnline, playersOnline,
                                         tableOnline, <<>>))
         /\ UNCHANGED <<updateOnline, playersOnline, tableOnline>>
    ELSE /\ CounterAfter(playersOnline, login) >= -MaxDebt
         /\ playersOnline' = CounterAfter(playersOnline, login)
         /\ updateOnline' = MapAfter(updateOnline, guid, login)
         /\ tableOnline' = ExecuteQuery(tableOnline, QueryFor(guid, login))
         /\ calls' = Remember(CallRecord(guid, login, updateOnline', playersOnline',
                                         tableOnline', <<QueryFor(guid, login)>>))

MarkOnline ==
    /\ \E guid \in Guids : updateOnlineStatus(guid, TRUE)
    /\ UNCHANGED notOnline

MarkOffline ==
    /\ \E guid \in Guids : updateOnlineStatus(guid, FALSE)
    /\ UNCHANGED notOnline

InitOnline ==
    /\ updateOnline = {}
    /\ playersOnline = 0
    /\ tableOnline = [g \in Guids |-> 0]
    /\ calls = <<>>

(***************************************************************************)
(* updateOnlineStatus called by several sessions, each on its own thread.  *)
(* The function takes no lock and the map is a plain flat_hash_map, so the *)
(* statements of two calls interleave: line 72 (find), lines 78/82 (the    *)
(* counter), lines 80/84 (the map write), line 86 (the query).  A find or  *)
(* a write that overlaps another thread's write of the map is a data race: *)
(* its outcome is any value.                                               *)
(***************************************************************************)
Sessions == 1..NumSessions

NoArg == [guid |-> 0, login |-> FALSE]

OtherWriting(t) == \E u \in Sessions \ {t} : tpc[u] = "writing"

\* what a racing access can observe or leave behind
AnyMap == SUBSET (Guids \ {0})

\* a session enters updateOnlineStatus(guid, login)
SessionCall(t) ==
    /\ tpc[t] = "idle"
    /\ tdone[t] < MaxCalls
    /\ \E guid \in Guids, login \in BOOLEAN :
           targ' = [targ EXCEPT ![t] = [guid |-> guid, login |-> login]]
    /\ tpc' = [tpc EXCEPT ![t] = "check"]
    /\ UNCHANGED <<onlineVars, tdone, inserts, notSessions>>

\* line 72-74
SessionCheck(t) ==
    /\ tpc[t] = "check"
    /\ \E seen \in (IF OtherWriting(t) THEN AnyMap ELSE {updateOnline}) :
           IF EarlyReturn(seen, targ[t].guid, targ[t].login)
           THEN /\ tpc' = [tpc EXCEPT ![t] = "idle"]
                /\ tdone' = [tdone EXCEPT ![t] = @ + 1]
           ELSE /\ tpc' = [tpc EXCEPT ![t] = "count"]
                /\ UNCHANGED tdone
    /\ UNCHANGED <<onlineVars, targ, inserts, notSessions>>

\* line 78 / line 82
SessionCount(t) ==
    /\ tpc[t] = "count"
    /\ playersOnline' = CounterAfter(playersOnline, targ[t].login)
    /\ tpc' = [tpc EXCEPT ![t] = "write"]
    /\ UNCHANGED <<updateOnline, tableOnline, calls, targ, tdone, inserts,
                   notSessions>>

\* line 80 / line 84: the write of the map begins
SessionWriteBegin(t) ==
    /\ tpc[t] = "write"
    /\ tpc' = [tpc EXCEPT ![t] = "writing"]
    /\ UNCHANGED <<onlineVars, targ, tdone, inserts, notSessions>>

\* line 80 / line 84: the write of the map ends
SessionWriteEnd(t) ==
    /\ tpc[t] = "writing"
    /\ IF OtherWriting(t)
       THEN updateOnline' \in AnyMap
       ELSE updateOnline' = MapAfter(updateOnline, targ[t].guid, targ[t].login)
    /\ tpc' = [tpc EXCEPT ![t] = "exec"]
    /\ UNCHANGED <<playersOnline, tableOnline, calls, targ, tdone, inserts,
                   notSessions>>

\* line 86
SessionExec(t) ==
    /\ tpc[t] = "exec"
    /\ tableOnline' = ExecuteQuery(tableOnline, QueryFor(targ[t].guid, targ[t].login))
    /\ inserts' = IF targ[t].login
                  THEN [inserts EXCEPT ![targ[t].guid] = @ + 1]
                  ELSE inserts
    /\ tpc' = [tpc EXCEPT ![t] = "idle"]
    /\ tdone' = [tdone EXCEPT ![t] = @ + 1]
    /\ UNCHANGED <<updateOnline, playersOnline, calls, targ, notSessions>>

InitSessions ==
    /\ tpc = [t \in Sessions |-> "idle"]
    /\ targ = [t \in Sessions |-> NoArg]
    /\ tdone = [t \in Sessions |-> 0]
    /\ inserts = [g \in Guids |-> 0]

(***************************************************************************)
(* loadPlayer, lines 104-193 (entered from loadPlayerById / loadPlayerByName,*)
(* lines 90-102, with the result of storeQuery, which is null when no row  *)
(* matches).  The sub-loaders return void: one fails by throwing.          *)
(***************************************************************************)

\* lines 113-170: the calls made before the test of disableIrrelevantInfo
RelevantLoaders ==
    << "loadPlayerFirst", "loadPlayerExperience", "loadPlayerBlessings",
       "loadPlayerConditions", "loadPlayerDefaultOutfit", "loadPlayerSkullSystem",
       "loadPlayerSkill", "loadPlayerKills", "loadPlayerGuild",
       "loadPlayerStashItems", "loadPlayerBestiaryCharms",
       "loadPlayerInventoryItems", "loadPlayerStoreInbox", "loadPlayerDepotItems",
       "loadRewardItems", "loadPlayerInboxItems", "loadPlayerStorageMap",
       "loadPlayerVip", "loadPlayerPreyClass", "loadPlayerTaskHuntingClass" >>

\* lines 177-183: the calls made after it
IrrelevantLoaders ==
    << "loadPlayerForgeHistory", "loadPlayerBosstiary",
       "loadPlayerInitializeSystem", "loadPlayerUpdateSystem" >>

\* the calls with the storage map loaded after the VIP list
SubLoadersSwapped ==
    [i \in 1..(Len(RelevantLoaders) + Len(IrrelevantLoaders)) |->
        LET all == RelevantLoaders \o IrrelevantLoaders IN
        IF all[i] = "loadPlayerStorageMap" THEN "loadPlayerVip"
        ELSE IF all[i] = "loadPlayerVip" THEN "loadPlayerStorageMap"
        ELSE all[i]]

\* lines 113-183: every call of the try block, in order
SubLoaders == RelevantLoaders \o IrrelevantLoaders

\* what a sub-loader call can do: return, or throw one of the two caught types
Throws == {"none", "std::system_error", "std::exception"}

NoFault == [loader |-> "", what |-> "none"]

LoadRunning(step) == [pc |-> "run", step |-> step, ret |-> "none"]

LoadReturned(step, ret) == [pc |-> "done", step |-> step, ret |-> ret]

\* line 105 with the test of the result only
LoadNullCheckResultOnly(resultNull, playerNull) == resultNull

\* lines 105-109: if (!result || !player) return false;
LoadNullCheck(resultNull, playerNull) == resultNull \/ playerNull

\* loadPlayer without the test of line 172, and with a throw swallowed
LoadAfterStepNoCut(step, disable, threw) ==
    IF threw # "none" THEN LoadReturned(step, "false")
    ELSE IF step = Len(SubLoaders) THEN LoadReturned(step, "true")
    ELSE LoadRunning(step + 1)

LoadAfterStepSwallow(step, disable, threw) ==
    IF step = Len(RelevantLoaders) /\ disable THEN LoadReturned(step, "true")
    ELSE IF step = Len(SubLoaders) THEN LoadReturned(step, "true")
    ELSE LoadRunning(step + 1)

\* where control goes after the call of sub-loader number `step`:
\* lines 186-192 (a throw is caught, return false), lines 172-174 (return true
\* after the relevant loaders when disableIrrelevantInfo), line 185 (return true)
LoadAfterStep(step, disable, threw) ==
    IF threw # "none" THEN LoadReturned(step, "false")
    ELSE IF step = Len(RelevantLoaders) /\ disable THEN LoadReturned(step, "true")
    ELSE IF step = Len(SubLoaders) THEN LoadReturned(step, "true")
    ELSE LoadRunning(step + 1)

\* lines 104-110: loadPlayer is entered
LoadCall ==
    /\ lpc \in {"idle", "done"}
    /\ \E resultNull \in BOOLEAN, playerNull \in BOOLEAN, disable \in BOOLEAN :
           /\ larg' = [resultNull |-> resultNull, playerNull |-> playerNull,
                       disableIrrelevantInfo |-> disable]
           /\ IF LoadNullCheck(resultNull, playerNull)
              THEN lpc' = "done" /\ lret' = "false"
              ELSE lpc' = "run" /\ lret' = "none"
    /\ lstep' = 1
    /\ loaded' = <<>>
    /\ lfault' = NoFault
    /\ UNCHANGED notLoad

\* lines 111-192: the next sub-loader is called
LoadStep ==
    /\ lpc = "run"
    /\ \E threw \in Throws :
           LET after == LoadAfterStep(lstep, larg.disableIrrelevantInfo, threw) IN
           /\ loaded' = Append(loaded, SubLoaders[lstep])
           /\ lfault' = IF lfault # NoFault \/ threw = "none" THEN lfault
                         ELSE [loader |-> SubLoaders[lstep], what |-> threw]
           /\ lpc' = after.pc
           /\ lstep' = after.step
           /\ lret' = after.ret
    /\ UNCHANGED <<larg, notLoad>>

InitLoad ==
    /\ lpc = "idle"
    /\ lstep = 1
    /\ larg = [resultNull |-> FALSE, playerNull |-> FALSE,
               disableIrrelevantInfo |-> FALSE]
    /\ loaded = <<>>
    /\ lfault = NoFault
    /\ lret = "none"

(***************************************************************************)
(* savePlayer, lines 195-205, and savePlayerGuard, lines 207-273.          *)
(* DBTransaction::executeWithinTransaction and the sub-savers are not part *)
(* of this file: the transaction begins, runs the body, commits when the   *)
(* body returns and rolls back when it throws; a sub-saver that succeeds   *)
(* writes its facet, one that fails may leave the facet half written.      *)
(***************************************************************************)

\* the order with stash and spells exchanged
SubSaversSwapped ==
    << "savePlayerFirst", "savePlayerSpells", "savePlayerStash", "savePlayerKills",
       "savePlayerBestiarySystem", "savePlayerItem", "savePlayerDepotItems",
       "saveRewardItems", "savePlayerInbox", "savePlayerPreyClass",
       "savePlayerTaskHuntingClass", "savePlayerForgeHistory",
       "savePlayerBosstiary", "saveDBPlayerSlotPointsOnLogout",
       "savePlayerStorage" >>

\* lines 212-270: the sub-savers in the order savePlayerGuard calls them
SubSavers ==
    << "savePlayerFirst", "savePlayerStash", "savePlayerSpells", "savePlayerKills",
       "savePlayerBestiarySystem", "savePlayerItem", "savePlayerDepotItems",
       "saveRewardItems", "savePlayerInbox", "savePlayerPreyClass",
       "savePlayerTaskHuntingClass", "savePlayerForgeHistory",
       "savePlayerBosstiary", "saveDBPlayerSlotPointsOnLogout",
       "savePlayerStorage" >>

Facets == {SubSavers[i] : i \in 1..Len(SubSavers)}

\* lines 213-269: the text of the DatabaseException thrown for each sub-saver,
\* the bracketed tag and the facet named, before player->getName()
SaveFailureText ==
    << [tag |-> "[savePlayerGuard]", facet |-> "player first"],
       [tag |-> "[IOLoginDataSave::savePlayerFirst]", facet |-> "player stash"],
       [tag |-> "[IOLoginDataSave::savePlayerSpells]", facet |-> "player spells"],
       [tag |-> "IOLoginDataSave::savePlayerKills]", facet |-> "player kills"],
       [tag |-> "[IOLoginDataSave::savePlayerBestiarySystem]",
        facet |-> "player bestiary system"],
       [tag |-> "[IOLoginDataSave::savePlayerItem]", facet |-> "player item"],
       [tag |-> "[IOLoginDataSave::savePlayerDepotItems]",
        facet |-> "player depot items"],
       [tag |-> "[IOLoginDataSave::saveRewardItems]",
        facet |-> "player reward items"],
       [tag |-> "[IOLoginDataSave::savePlayerInbox]", facet |-> "player inbox"],
       [tag |-> "[IOLoginDataSave::savePlayerPreyClass]",
        facet |-> "player prey class"],
       [tag |-> "[IOLoginDataSave::savePlayerTaskHuntingClass]",
        facet |-> "player task hunting class"],
       [tag |-> "[IOLoginDataSave::savePlayerForgeHistory]",
        facet |-> "player forge history"],
       [tag |-> "[IOLoginDataSave::savePlayerBosstiary]",
        facet |-> "player bosstiary"],
       [tag |-> "[PlayerWheel::saveDBPlayerSlotPointsOnLogout]",
        facet |-> "player wheel info"],
       [tag |-> "[IOLoginDataSave::savePlayerStorage]",
        facet |-> "player storage"] >>

\* player->getName()
PlayerName == "Alice"

NoSaveFault == [step |-> 0, saver |-> "", tag |-> "", facet |-> "", name |-> ""]

\* line 209: throw DatabaseException("Player nullptr in function: savePlayerGuard")
NullPlayerFault ==
    [step |-> 0, saver |-> "savePlayerGuard", tag |-> "Player nullptr in function:",
     facet |-> "", name |-> ""]

\* the exception text without player->getName()
SaverFaultNoName(step) ==
    [step |-> step, saver |-> SubSavers[step], tag |-> SaveFailureText[step].tag,
     facet |-> SaveFailureText[step].facet, name |-> ""]

\* lines 213-269: throw DatabaseException(tag + " - Failed to save " + facet + ": " + name)
SaverFault(step) ==
    [step |-> step, saver |-> SubSavers[step], tag |-> SaveFailureText[step].tag,
     facet |-> SaveFailureText[step].facet, name |-> PlayerName]

\* the rows of a facet are deleted; the rows of the player are inserted
DeleteRows(store, facet) == [store EXCEPT ![facet] = <<>>]

InsertRows(store, facet, ver) == [store EXCEPT ![facet] = Append(@, ver)]

\* a sub-saver runs inside the transaction for a player of generation `ver`: it
\* replaces the rows of its facet; one that fails may stop after the delete
SubSaverWriteAs(store, facet, ver, ok, partial) ==
    IF ok THEN InsertRows(DeleteRows(store, facet), facet, ver)
    ELSE IF partial THEN DeleteRows(store, facet)
    ELSE store

SubSaverWrite(store, facet, ok, partial) ==
    SubSaverWriteAs(store, facet, playerVer, ok, partial)

\* savePlayerGuard without the test of the last sub-saver's result
GuardAfterStepIgnoreLast(step, ok) ==
    IF ~ok /\ step # Len(SubSavers) THEN [pc |-> "threw", step |-> step]
    ELSE IF step = Len(SubSavers) THEN [pc |-> "returned", step |-> step]
    ELSE [pc |-> "guard", step |-> step + 1]

\* where control goes after the call of sub-saver number `step`:
\* if (!saveX(player)) throw DatabaseException(...); after the last one, return true
GuardAfterStep(step, ok) ==
    IF ~ok THEN [pc |-> "threw", step |-> step]
    ELSE IF step = Len(SubSavers) THEN [pc |-> "returned", step |-> step]
    ELSE [pc |-> "guard", step |-> step + 1]

\* the game changes the player between two saves
Play ==
    /\ spc \in {"idle", "done"}
    /\ playerVer < MaxVer
    /\ playerVer' = playerVer + 1
    /\ UNCHANGED <<stored, txn, storedBefore, spc, sstep, sarg, saved, sfault,
                   sret, slog, sprev, notSave>>

\* line 196: executeWithinTransaction begins the transaction and calls
\* savePlayerGuard; lines 208-210: a null player throws at once
SaveCall ==
    /\ spc \in {"idle", "done"}
    /\ \E playerNull \in BOOLEAN :
           /\ sarg' = [playerNull |-> playerNull, ver |-> playerVer]
           /\ spc' = IF playerNull THEN "threw" ELSE "guard"
           /\ sfault' = IF playerNull THEN NullPlayerFault ELSE NoSaveFault
    /\ txn' = stored
    /\ storedBefore' = stored
    /\ sstep' = 1
    /\ saved' = <<>>
    /\ sret' = "none"
    /\ slog' = <<>>
    /\ sprev' = IF spc = "done" THEN [ver |-> sarg.ver, ret |-> sret] ELSE sprev
    /\ UNCHANGED <<playerVer, stored, notSave>>

\* lines 212-272: the next sub-saver is called and its result tested
SaveStep ==
    /\ spc = "guard"
    /\ \E ok \in BOOLEAN, partial \in BOOLEAN :
           LET after == GuardAfterStep(sstep, ok) IN
           /\ txn' = SubSaverWrite(txn, SubSavers[sstep], ok, partial)
           /\ saved' = Append(saved, SubSavers[sstep])
           /\ sfault' = IF sfault # NoSaveFault \/ ok THEN sfault
                         ELSE SaverFault(sstep)
           /\ spc' = after.pc
           /\ sstep' = after.step
    /\ UNCHANGED <<playerVer, stored, storedBefore, sarg, sret, slog, sprev,
                   notSave>>

\* executeWithinTransaction ends: commit when the body returned true, rollback
\* when it threw
TransactionEnd(committed, working, outcome) ==
    IF outcome = "returned" THEN working ELSE committed

\* lines 196-204: the transaction ends, savePlayer logs a failure and returns
SaveFinish ==
    /\ spc \in {"threw", "returned"}
    /\ stored' = TransactionEnd(stored, txn, spc)
    /\ txn' = stored'
    /\ sret' = IF spc = "returned" THEN "true" ELSE "false"
    /\ slog' = IF spc = "returned" THEN slog
                ELSE Append(slog, "[savePlayer] Error occurred saving player")
    /\ spc' = "done"
    /\ UNCHANGED <<playerVer, storedBefore, sstep, sarg, saved, sfault, sprev,
                   notSave>>

InitSave ==
    /\ playerVer = 0
    /\ stored = [f \in Facets |-> <<0>>]
    /\ txn = [f \in Facets |-> <<0>>]
    /\ storedBefore = [f \in Facets |-> <<0>>]
    /\ spc = "idle"
    /\ sstep = 1
    /\ sarg = [playerNull |-> FALSE, ver |-> 0]
    /\ saved = <<>>
    /\ sfault = NoSaveFault
    /\ sret = "none"
    /\ slog = <<>>
    /\ sprev = [ver |-> 0, ret |-> "none"]

(***************************************************************************)
(* savePlayer run by two sessions at once, each for its own player and in  *)
(* its own unit of work (lines 195-273 once per session).  The sub-savers  *)
(* of a player write the rows of that player only.                         *)
(***************************************************************************)
Players == {"p1", "p2"}

Running(p) == duo[p].pc \in {"guard", "threw", "returned"}

\* line 196: the session begins its unit of work and enters savePlayerGuard
SaveCallOf(p) ==
    /\ duo[p].pc \in {"idle", "done"}
    /\ duo' = [duo EXCEPT ![p] =
                  [@ EXCEPT !.pc = "guard", !.step = 1, !.fault = 0,
                            !.txn = dstore[p], !.before = dstore[p],
                            !.overlap = \E q \in Players \ {p} : Running(q)]]
    /\ UNCHANGED <<dver, dstore, notDuo>>

\* lines 212-272: the next sub-saver of the session's run
SaveStepOf(p) ==
    /\ duo[p].pc = "guard"
    /\ \E ok \in BOOLEAN, partial \in BOOLEAN :
           LET step == duo[p].step
               after == GuardAfterStep(step, ok) IN
           duo' = [duo EXCEPT ![p] =
                      [@ EXCEPT !.pc = after.pc, !.step = after.step,
                                !.fault = IF ok \/ @ # 0 THEN @ ELSE step,
                                !.txn = SubSaverWriteAs(@, SubSavers[step], dver[p],
                                                        ok, partial)]]
    /\ UNCHANGED <<dver, dstore, notDuo>>

\* lines 196-204: the session's unit of work ends and savePlayer returns
SaveFinishOf(p) ==
    /\ duo[p].pc \in {"threw", "returned"}
    /\ dstore' = [dstore EXCEPT ![p] = TransactionEnd(@, duo[p].txn, duo[p].pc)]
    /\ duo' = [duo EXCEPT ![p] =
                  [@ EXCEPT !.pc = "done", !.txn = dstore'[p],
                            !.ret = IF duo[p].pc = "returned" THEN "true" ELSE "false",
                            !.last = IF duo[p].pc = "returned" THEN dver[p] ELSE @]]
    /\ UNCHANGED <<dver, notDuo>>

\* the two players differ in what they hold in memory
Generations == [p \in Players |-> IF p = "p1" THEN 1 ELSE 2]

InitDuo ==
    /\ dver = Generations
    /\ dstore = [p \in Players |-> [f \in Facets |-> <<0>>]]
    /\ duo = [p \in Players |->
                 [pc |-> "idle", step |-> 1, fault |-> 0, ret |-> "none",
                  txn |-> [f \in Facets |-> <<0>>],
                  before |-> [f \in Facets |-> <<0>>],
                  overlap |-> FALSE, last |-> 0]]

(***************************************************************************)
(* gameWorldAuthentication, lines 20-58.  account::Account is not part of  *)
(* this file: load() succeeds for an existing descriptor unless the store  *)
(* fails, authenticate(password) accepts the account's password,           *)
(* authenticate() accepts a valid session, getAccountPlayers() returns the *)
(* roster (a map from character name to a number) unless the store fails.  *)
(***************************************************************************)
Descriptors == {"alice@example.com", "nobody@example.com"}

Passwords == {"secret", "guess"}

CharacterNames == {"Alice", "Bob"}

\* the one account of the store
TheAccount == [descriptor |-> "alice@example.com", password |-> "secret", id |-> 7]

\* values a caller's accountId variable holds before the call
CallerIds == {0, 5}

\* account.load(): ERROR_NO or an error
AccountLoad(descriptor, storeOk) ==
    IF descriptor = TheAccount.descriptor /\ storeOk THEN "ERROR_NO" ELSE "ERROR_DB"

\* account.authenticate(password) and account.authenticate()
AccountAuthenticate(password) == password = TheAccount.password

AccountAuthenticateSession == world.sessionValid

\* account.getAccountPlayers(): the roster and a result code
AccountPlayers(storeOk) ==
    [players |-> world.roster, result |-> IF storeOk THEN "ERROR_NO" ELSE "ERROR_DB"]

\* players[characterName]: std::map::operator[] yields 0 for a key that is absent
RosterAt(players, name) == IF name \in DOMAIN players THEN players[name] ELSE 0

\* line 50: if (players[characterName] != 0) { ... not found or deleted ... return false; }
CharacterRejected(players, name) == RosterAt(players, name) # 0

\* a failing step with the caller's accountId overwritten
AuthFailClearsId ==
    /\ apc' = "done" /\ aret' = "false" /\ afail' = apc /\ accountId' = 0

\* lines 26, 31, 35, 41, 47, 52: return false; accountId is only set at line 55
AuthFail ==
    /\ apc' = "done" /\ aret' = "false" /\ afail' = apc /\ UNCHANGED accountId

\* a call that has returned, as remembered in aprev
CallDone == [arg |-> aarg, oks |-> aoks, ret |-> aret, id |-> accountId]

\* lines 20-22: the call is entered
AuthCall ==
    /\ apc \in {"idle", "done"}
    /\ \E d \in Descriptors, pw \in Passwords, name \in CharacterNames,
          id0 \in CallerIds, old \in BOOLEAN :
           /\ aarg' = [accountDescriptor |-> d, password |-> pw,
                       characterName |-> name, accountId |-> id0,
                       oldProtocol |-> old]
           /\ accountId' = id0
    /\ apc' = "load"
    /\ atrace' = <<>>
    /\ aret' = "none"
    /\ afail' = ""
    /\ aoks' = <<>>
    /\ aprev' = IF apc = "done" THEN CallDone ELSE aprev
    /\ UNCHANGED <<world, notAuth>>

\* lines 24-27 without the return: the failure is logged and the call goes on
AuthLoadNoReturn ==
    /\ apc = "load"
    /\ atrace' = Append(atrace, "load")
    /\ \E storeOk \in BOOLEAN :
           /\ aoks' = Append(aoks, storeOk)
           /\ afail' = IF AccountLoad(aarg.accountDescriptor, storeOk) # "ERROR_NO"
                        THEN "load" ELSE afail
    /\ apc' = "authenticate"
    /\ UNCHANGED <<aret, accountId, world, aarg, aprev, notAuth>>

\* lines 24-27
AuthLoad ==
    /\ apc = "load"
    /\ atrace' = Append(atrace, "load")
    /\ \E storeOk \in BOOLEAN :
           /\ aoks' = Append(aoks, storeOk)
           /\ IF AccountLoad(aarg.accountDescriptor, storeOk) # "ERROR_NO"
              THEN AuthFail
              ELSE apc' = "authenticate" /\ UNCHANGED <<aret, accountId, afail>>
    /\ UNCHANGED <<world, aarg, aprev, notAuth>>

\* lines 29-37
AuthAuthenticate ==
    /\ apc = "authenticate"
    /\ atrace' = Append(atrace, "authenticate")
    /\ IF world.authType = "session"
       THEN IF ~AccountAuthenticateSession
            THEN AuthFail
            ELSE apc' = "reload" /\ UNCHANGED <<aret, accountId, afail>>
       ELSE IF ~AccountAuthenticate(aarg.password)
            THEN AuthFail
            ELSE apc' = "reload" /\ UNCHANGED <<aret, accountId, afail>>
    /\ UNCHANGED <<world, aarg, aoks, aprev, notAuth>>

\* lines 39-42
AuthReload ==
    /\ apc = "reload"
    /\ atrace' = Append(atrace, "reload")
    /\ \E storeOk \in BOOLEAN :
           /\ aoks' = Append(aoks, storeOk)
           /\ IF AccountLoad(aarg.accountDescriptor, storeOk) # "ERROR_NO"
              THEN AuthFail
              ELSE apc' = "roster" /\ UNCHANGED <<aret, accountId, afail>>
    /\ UNCHANGED <<world, aarg, aprev, notAuth>>

\* lines 44-48
AuthRoster ==
    /\ apc = "roster"
    /\ atrace' = Append(atrace, "roster")
    /\ \E storeOk \in BOOLEAN :
           /\ aoks' = Append(aoks, storeOk)
           /\ IF AccountPlayers(storeOk).result # "ERROR_NO"
              THEN AuthFail
              ELSE apc' = "check" /\ UNCHANGED <<aret, accountId, afail>>
    /\ UNCHANGED <<world, aarg, aprev, notAuth>>

\* lines 50-57
AuthCheck ==
    /\ apc = "check"
    /\ atrace' = Append(atrace, "check")
    /\ IF CharacterRejected(AccountPlayers(TRUE).players, aarg.characterName)
       THEN AuthFail
       ELSE /\ accountId' = TheAccount.id
            /\ apc' = "done"
            /\ aret' = "true"
            /\ UNCHANGED afail
    /\ UNCHANGED <<world, aarg, aoks, aprev, notAuth>>

\* the account has the character "Alice"; its roster entry is 0 or not, the
\* server runs with AUTH_TYPE "password" or "session", the session is valid or not
Worlds ==
    [authType : {"password", "session"},
     roster : [{"Alice"} -> {0, 1}],
     sessionValid : BOOLEAN]

\* the world the other subsystems run in: they do not read it
QuietWorld ==
    [authType |-> "password", roster |-> [n \in {"Alice"} |-> 1],
     sessionValid |-> FALSE]

InitAuth ==
    /\ world \in Worlds
    /\ apc = "idle"
    /\ aarg = [accountDescriptor |-> "alice@example.com", password |-> "secret",
               characterName |-> "Alice", accountId |-> 0, oldProtocol |-> FALSE]
    /\ accountId = 0
    /\ atrace = <<>>
    /\ aret = "none"
    /\ afail = ""
    /\ aoks = <<>>
    /\ aprev = CallDone

InitAll ==
    /\ InitOnline /\ InitSessions /\ InitLoad /\ InitSave /\ InitAuth
    /\ InitDuo

Init == InitAll /\ world = QuietWorld

NextOnline == MarkOnline \/ MarkOffline

NextSave == Play \/ SaveCall \/ SaveStep \/ SaveFinish

NextAuth ==
    AuthCall \/ AuthLoad \/ AuthAuthenticate \/ AuthReload \/ AuthRoster \/ AuthCheck

SpecAuth == InitAll /\ [][NextAuth]_vars

SpecSave == Init /\ [][NextSave]_vars

NextLoad == LoadCall \/ LoadStep

SpecLoad == Init /\ [][NextLoad]_vars

\* loads and saves of a session, in any order
NextPersist == NextLoad \/ NextSave

SpecPersist == Init /\ [][NextPersist]_vars

InitTwoSaves ==
    /\ InitOnline /\ InitSessions /\ InitLoad /\ InitSave /\ InitAuth
    /\ world = QuietWorld /\ InitDuo

NextTwoSaves == \E p \in Players : SaveCallOf(p) \/ SaveStepOf(p) \/ SaveFinishOf(p)

SpecTwoSaves == InitTwoSaves /\ [][NextTwoSaves]_vars

SpecOnline == Init /\ [][NextOnline]_vars

NextSessions ==
    \E t \in Sessions :
        \/ SessionCall(t)
        \/ SessionCheck(t)
        \/ SessionCount(t)
        \/ SessionWriteBegin(t)
        \/ SessionWriteEnd(t)
        \/ SessionExec(t)

SpecSessions == Init /\ [][NextSessions]_vars

(***************************************************************************)
(* Claims about the online-presence tracker, checked under SpecOnline.     *)
(***************************************************************************)
Pairs == 1..(Len(calls) - 1)

Triples == 1..(Len(calls) - 2)

TwiceOnline(i) ==
    /\ calls[i].login /\ calls[i + 1].login
    /\ calls[i].guid = calls[i + 1].guid
    /\ calls[i].guid > 0

NoOpCall(c) ==
    /\ c.map1 = c.map0
    /\ c.cnt1 = c.cnt0
    /\ c.rows1 = c.rows0
    /\ c.queries = <<>>

\* C3 as stated: from every starting state, two consecutive markOnline(id) calls
\* for a positive id change the players_online counter by exactly +1 in total,
\* and the second call changes neither counter nor presence set nor the store.
C3_TwiceOnlineAddsOne ==
    \A i \in Pairs :
        TwiceOnline(i) =>
            /\ calls[i + 1].cnt1 - calls[i].cnt0 = 1
            /\ NoOpCall(calls[i + 1])

\* C3 amended: the second of two consecutive markOnline(id) calls is a no-op
\* (counter, presence set and store unchanged, no insert issued); the total
\* counter change of the two calls is +1 when the id was absent before the
\* first call and 0 when it was already present.
C3_TwiceOnlineDedup ==
    \A i \in Pairs :
        TwiceOnline(i) =>
            /\ NoOpCall(calls[i + 1])
            /\ calls[i + 1].cnt1 - calls[i].cnt0
                   = IF calls[i].guid \in calls[i].map0 THEN 0 ELSE 1

\* witness of C3: two consecutive markOnline(id) calls, the id absent before the first
C3_Witness ==
    \E i \in Pairs :
        /\ TwiceOnline(i)
        /\ calls[i].guid \notin calls[i].map0
        /\ calls[i].queries # <<>>

OnOffOn(i) ==
    /\ calls[i].login /\ ~calls[i + 1].login /\ calls[i + 2].login
    /\ calls[i].guid = calls[i + 1].guid
    /\ calls[i].guid = calls[i + 2].guid
    /\ calls[i].guid > 0
    /\ calls[i].guid \notin calls[i].map0

\* C4: for a positive id x that is absent, markOnline(x), markOffline(x),
\* markOnline(x) ends with x in the presence set and a net counter change of +1.
C4_OnOffOnNetOne ==
    \A i \in Triples :
        OnOffOn(i) =>
            /\ calls[i].guid \in calls[i + 2].map1
            /\ calls[i + 2].cnt1 - calls[i].cnt0 = 1

\* witness of C4: the three calls have been made
C4_Witness ==
    \E i \in Triples : OnOffOn(i) /\ calls[i + 2].queries # <<>>

\* C5 as stated: markOffline(id) for an id that is not in the presence set
\* changes neither the presence set nor the players_online counter.
C5_OfflineAbsentIsNoOp ==
    \A i \in 1..Len(calls) :
        (~calls[i].login /\ calls[i].guid \notin calls[i].map0) =>
            /\ calls[i].map1 = calls[i].map0
            /\ calls[i].cnt1 = calls[i].cnt0

\* C6: markOnline with guid 0 changes nothing (presence set, counter, store, no
\* query); markOnline with a positive absent guid records presence, adds exactly
\* one to the counter and issues exactly one INSERT for that guid.
C6_OnlineGuardAndEffect ==
    \A i \in 1..Len(calls) :
        LET c == calls[i] IN
        /\ (c.login /\ c.guid <= 0) => NoOpCall(c)
        /\ (c.login /\ c.guid > 0 /\ c.guid \notin c.map0) =>
               /\ c.map1 = c.map0 \cup {c.guid}
               /\ c.cnt1 = c.cnt0 + 1
               /\ c.queries = <<[op |-> "INSERT", player_id |-> c.guid]>>
               /\ c.rows1 = [c.rows0 EXCEPT ![c.guid] = @ + 1]

\* witness of C6: both cases have happened, guid 0 while other ids are online
C6_Witness ==
    /\ \E i \in 1..Len(calls) :
           calls[i].login /\ calls[i].guid = 0 /\ calls[i].map0 # {}
    /\ \E i \in 1..Len(calls) :
           calls[i].login /\ calls[i].guid > 0 /\ calls[i].guid \notin calls[i].map0

(***************************************************************************)
(* Claim about concurrent calls, checked under SpecSessions.               *)
(***************************************************************************)
BothMarkedOnline(x) ==
    \A t \in Sessions :
        /\ tpc[t] = "idle" /\ tdone[t] = 1
        /\ targ[t].login /\ targ[t].guid = x

\* C7 as stated: when the sessions call markOnline for the same absent id
\* concurrently, in every interleaving the counter has increased by exactly one
\* and exactly one INSERT has been issued for that id once the calls are over.
C7_ConcurrentOnlineCountsOnce ==
    \A x \in Guids \ {0} :
        BothMarkedOnline(x) => (playersOnline = 1 /\ inserts[x] = 1)

(***************************************************************************)
(* Claims about the load pipeline, checked under SpecLoad.                 *)
(***************************************************************************)
Prefix(a, b) == Len(a) <= Len(b) /\ a = SubSeq(b, 1, Len(a))

Invoked(name) == \E i \in 1..Len(loaded) : loaded[i] = name

ShallowOrder ==
    << "loadPlayerFirst", "loadPlayerExperience", "loadPlayerBlessings",
       "loadPlayerConditions", "loadPlayerDefaultOutfit", "loadPlayerSkullSystem",
       "loadPlayerSkill", "loadPlayerKills", "loadPlayerGuild",
       "loadPlayerStashItems", "loadPlayerBestiaryCharms",
       "loadPlayerInventoryItems", "loadPlayerStoreInbox", "loadPlayerDepotItems",
       "loadRewardItems", "loadPlayerInboxItems", "loadPlayerStorageMap",
       "loadPlayerVip", "loadPlayerPreyClass", "loadPlayerTaskHuntingClass" >>

FullOnly ==
    << "loadPlayerForgeHistory", "loadPlayerBosstiary",
       "loadPlayerInitializeSystem", "loadPlayerUpdateSystem" >>

LoadEntered == ~larg.resultNull /\ ~larg.playerNull

\* C8: a run with disableIrrelevantInfo set never invokes loadPlayerForgeHistory,
\* loadPlayerBosstiary, loadPlayerInitializeSystem or loadPlayerUpdateSystem, and
\* without a fault it returns true having invoked exactly the 20 sub-loaders
\* loadPlayerFirst .. loadPlayerTaskHuntingClass; with the flag unset and no
\* fault it returns true having invoked all 24.
C8_ShallowSkipsIrrelevant ==
    /\ larg.disableIrrelevantInfo =>
           \A i \in 1..Len(FullOnly) : ~Invoked(FullOnly[i])
    /\ (lpc = "done" /\ LoadEntered /\ lfault = NoFault) =>
           /\ lret = "true"
           /\ Len(ShallowOrder) = 20 /\ Len(ShallowOrder \o FullOnly) = 24
           /\ loaded = IF larg.disableIrrelevantInfo
                       THEN ShallowOrder
                       ELSE ShallowOrder \o FullOnly

\* witness of C8: a shallow run has returned true after its 20 sub-loaders
C8_Witness ==
    /\ lpc = "done" /\ LoadEntered /\ lfault = NoFault
    /\ larg.disableIrrelevantInfo /\ lret = "true" /\ Len(loaded) = 20

\* C9: once a sub-loader has failed, the run has ended: it is the last
\* sub-loader invoked, loadPlayer has returned false, and loadPlayer never
\* returns true in a run in which a sub-loader failed.
C9_LoadFaultAborts ==
    /\ lfault # NoFault =>
           /\ lpc = "done" /\ lret = "false"
           /\ loaded # <<>> /\ loaded[Len(loaded)] = lfault.loader
    /\ lret = "true" => lfault = NoFault

\* witness of C9: a sub-loader in the middle of the order has thrown
C9_Witness ==
    /\ lfault # NoFault /\ lpc = "done"
    /\ Len(loaded) > 1 /\ Len(loaded) < 20

(***************************************************************************)
(* Claims about the save pipeline, checked under SpecSave.                 *)
(***************************************************************************)
SaveOrder ==
    << "savePlayerFirst", "savePlayerStash", "savePlayerSpells", "savePlayerKills",
       "savePlayerBestiarySystem", "savePlayerItem", "savePlayerDepotItems",
       "saveRewardItems", "savePlayerInbox", "savePlayerPreyClass",
       "savePlayerTaskHuntingClass", "savePlayerForgeHistory",
       "savePlayerBosstiary", "saveDBPlayerSlotPointsOnLogout",
       "savePlayerStorage" >>

SubSaverFailed == sfault # NoSaveFault /\ sfault # NullPlayerFault

\* C1: when a sub-saver has failed, whichever of the 15 it is, savePlayer returns
\* false and the store after the run equals the store before it; while the run is
\* still open the committed store is the one from before the run.
C1_FailedSaveRollsBack ==
    /\ (spc = "done" /\ SubSaverFailed) =>
           (sret = "false" /\ stored = storedBefore)
    /\ spc \in {"guard", "threw", "returned"} => stored = storedBefore

\* witness of C1: the last sub-saver failed after the 14 before it had written
\* facets that differ from the stored ones, and savePlayer has returned
C1_Witness ==
    /\ spc = "done" /\ sfault.saver = "savePlayerStorage"
    /\ Len(saved) = 15
    /\ \A f \in Facets : stored[f] # <<playerVer>>

\* C2: the sub-savers invoked by a run are a prefix of the order first, stash,
\* spells, kills, bestiary, items, depot, reward, inbox, prey, task hunting,
\* forge history, bosstiary, wheel slot points, storage; the sub-saver that
\* failed is the last one invoked; the run commits (returns true) only when all
\* 15 have been invoked and none has failed.
C2_SaveOrderFailFast ==
    /\ Len(SaveOrder) = 15
    /\ Prefix(saved, SaveOrder)
    /\ SubSaverFailed =>
           /\ spc \in {"threw", "done"}
           /\ saved # <<>> /\ saved[Len(saved)] = sfault.saver
    /\ (spc = "returned" \/ sret = "true") =>
           (saved = SaveOrder /\ sfault = NoSaveFault)
    /\ stored # storedBefore => (saved = SaveOrder /\ sfault = NoSaveFault)

\* witness of C2: a run stopped at a failure in the middle of the order
C2_Witness ==
    /\ spc = "done" /\ SubSaverFailed
    /\ Len(saved) = 6 /\ sfault.saver = "savePlayerItem"

(***************************************************************************)
(* Claims about the authentication gate, checked under SpecAuth.           *)
(***************************************************************************)
\* the call was made for the account of "Alice" with the correct credential, the
\* roster entry at "Alice" is nonzero, and the call has reached the end
AliceScenarioDone ==
    /\ apc = "done"
    /\ aarg.accountDescriptor = "alice@example.com"
    /\ world.authType = "password" /\ aarg.password = "secret"
    /\ world.roster["Alice"] # 0
    /\ atrace = <<"load", "authenticate", "reload", "roster", "check">>

\* C10 as stated: with the roster entry at "Alice" nonzero and the correct
\* credential, characterName "Alice" gives success and a nonzero account id, and
\* characterName "Bob" (absent from the roster, read as 0) gives failure.
C10_AliceAcceptedBobRejected ==
    AliceScenarioDone =>
        /\ aarg.characterName = "Alice" => (aret = "true" /\ accountId # 0)
        /\ aarg.characterName = "Bob" => aret = "false"

\* C11: a password that verification rejects makes the call return false right
\* after the authenticate step, and on every false return (load, authenticate,
\* reload, roster, check) the caller's accountId holds the value it had before
\* the call.
C11_RejectedKeepsAccountId ==
    /\ (apc = "done" /\ aret = "false") =>
           (accountId = aarg.accountId /\ afail \in
                {"load", "authenticate", "reload", "roster", "check"})
    /\ (world.authType = "password" /\ aarg.password = "guess"
            /\ \E i \in 1..Len(atrace) : atrace[i] = "authenticate") =>
           /\ apc = "done" /\ aret = "false"
           /\ atrace = <<"load", "authenticate">>

\* witness of C11: a wrong password was rejected while the caller's accountId
\* held a nonzero value
C11_Witness ==
    /\ apc = "done" /\ aret = "false" /\ afail = "authenticate"
    /\ world.authType = "password" /\ aarg.password = "guess"
    /\ aarg.accountId = 5

SameButPassword(a, b) ==
    /\ a.accountDescriptor = b.accountDescriptor
    /\ a.characterName = b.characterName
    /\ a.accountId = b.accountId
    /\ a.oldProtocol = b.oldProtocol

\* the store answered the two calls alike, as far as both asked
SameStoreOutcomes == Prefix(aoks, aprev.oks) \/ Prefix(aprev.oks, aoks)

\* two finished calls in session mode that differ at most in the password
TwoSessionCalls ==
    /\ apc = "done" /\ aprev.ret # "none"
    /\ world.authType = "session"
    /\ SameButPassword(aprev.arg, aarg)
    /\ SameStoreOutcomes

\* in session mode two calls that differ only in the password return the same
\* boolean and leave the same accountId
PasswordIgnoredInSession ==
    TwoSessionCalls => (aret = aprev.ret /\ accountId = aprev.id)

\* a finished session-mode call for a character of an existing account, with a
\* valid session and every store access successful
ValidSessionCall ==
    /\ apc = "done"
    /\ world.authType = "session" /\ world.sessionValid
    /\ aarg.accountDescriptor = "alice@example.com"
    /\ aarg.characterName \in DOMAIN world.roster
    /\ world.roster[aarg.characterName] # 0
    /\ \A i \in 1..Len(aoks) : aoks[i]

\* C12 as stated: in session mode the result does not depend on the password
\* (two calls that differ only in the password return the same boolean and the
\* same accountId), and the calls succeed when the session is valid.
C12_SessionIgnoresPassword ==
    /\ PasswordIgnoredInSession
    /\ ValidSessionCall => aret = "true"

AuthOrder == <<"load", "authenticate", "reload", "roster", "check">>

\* C16: the steps of a call are performed in the order load, authenticate,
\* reload, roster, check; a step that fails is the last one performed and the
\* call returns false; true is returned only after all five steps.
C16_AuthOrderFailTerminal ==
    /\ Prefix(atrace, AuthOrder)
    /\ afail # "" =>
           /\ apc = "done" /\ aret = "false"
           /\ atrace # <<>> /\ atrace[Len(atrace)] = afail
    /\ aret = "true" => (atrace = AuthOrder /\ afail = "")

\* witness of C16: the reload failed after load and authenticate had succeeded
C16_Witness ==
    /\ apc = "done" /\ afail = "reload"
    /\ atrace = <<"load", "authenticate", "reload">>

\* C18 as stated: after any sequence of updateOnlineStatus calls from the empty
\* presence set and counter 0, the players_online counter equals the number of
\* ids in the presence set, and so is never negative.
C18_CounterIsPresenceSize ==
    /\ playersOnline = Cardinality(updateOnline)
    /\ playersOnline >= 0

\* C19: after any sequence of updateOnlineStatus calls whose queries all
\* succeed, from the empty presence set and the empty table, the ids with a row
\* in players_online are the ids of the presence set, one row each.
C19_TableMatchesPresence ==
    \A g \in Guids : tableOnline[g] = IF g \in updateOnline THEN 1 ELSE 0

\* witness of C19: one id has logged in and out and in again, another has logged
\* in and out
C19_Witness ==
    /\ Len(calls) >= 3
    /\ updateOnline # {} /\ updateOnline # Guids \ {0}
    /\ \E i \in 1..Len(calls) :
           ~calls[i].login /\ calls[i].guid \in calls[i].map0
    /\ \E i \in 1..Len(calls) :
           calls[i].login /\ calls[i].guid \notin calls[i].map0 /\ calls[i].guid > 0

CanonicalLoadOrder ==
    << "loadPlayerFirst", "loadPlayerExperience", "loadPlayerBlessings",
       "loadPlayerConditions", "loadPlayerDefaultOutfit", "loadPlayerSkullSystem",
       "loadPlayerSkill", "loadPlayerKills", "loadPlayerGuild",
       "loadPlayerStashItems", "loadPlayerBestiaryCharms",
       "loadPlayerInventoryItems", "loadPlayerStoreInbox", "loadPlayerDepotItems",
       "loadRewardItems", "loadPlayerInboxItems", "loadPlayerStorageMap",
       "loadPlayerVip", "loadPlayerPreyClass", "loadPlayerTaskHuntingClass",
       "loadPlayerForgeHistory", "loadPlayerBosstiary",
       "loadPlayerInitializeSystem", "loadPlayerUpdateSystem" >>

\* C15: at every point of a run the sub-loaders invoked so far are the first
\* ones of the canonical order, each once and in that order, and the next one
\* is invoked only when all before it have returned: the run is at the position
\* that follows the last one invoked.
C15_LoadCanonicalOrder ==
    /\ Prefix(loaded, CanonicalLoadOrder)
    /\ \A i, j \in 1..Len(loaded) : loaded[i] = loaded[j] => i = j
    /\ lpc = "run" => lstep = Len(loaded) + 1

\* witness of C15: a full load has gone through all 24 sub-loaders
C15_Witness ==
    /\ lpc = "done" /\ lret = "true" /\ ~larg.disableIrrelevantInfo
    /\ Len(loaded) = 24

\* the run that has just returned true follows a run that returned true for the
\* same, unchanged player
SavedTwice ==
    /\ spc = "done" /\ sret = "true"
    /\ sprev.ret = "true" /\ sprev.ver = sarg.ver

FacetNamed ==
    [savePlayerFirst |-> "player first",
     savePlayerStash |-> "player stash",
     savePlayerSpells |-> "player spells",
     savePlayerKills |-> "player kills",
     savePlayerBestiarySystem |-> "player bestiary system",
     savePlayerItem |-> "player item",
     savePlayerDepotItems |-> "player depot items",
     saveRewardItems |-> "player reward items",
     savePlayerInbox |-> "player inbox",
     savePlayerPreyClass |-> "player prey class",
     savePlayerTaskHuntingClass |-> "player task hunting class",
     savePlayerForgeHistory |-> "player forge history",
     savePlayerBosstiary |-> "player bosstiary",
     saveDBPlayerSlotPointsOnLogout |-> "player wheel info",
     savePlayerStorage |-> "player storage"]

LoadNullArg == larg.resultNull \/ larg.playerNull

\* C20: loadPlayer with a null result or a null player returns false without
\* invoking a sub-loader; savePlayer with a null player returns false without
\* invoking a sub-saver and leaves the store as it was.
C20_NullInputsRejected ==
    /\ (lpc # "idle" /\ LoadNullArg) =>
           (lpc = "done" /\ lret = "false" /\ loaded = <<>>)
    /\ (spc # "idle" /\ sarg.playerNull) =>
           /\ spc \in {"threw", "done"}
           /\ saved = <<>>
           /\ stored = storedBefore /\ txn = storedBefore
           /\ spc = "done" => sret = "false"

\* witness of C20: a load with a null player and a save with a null player have
\* both returned, the player differing from what is stored
C20_Witness ==
    /\ lpc = "done" /\ larg.playerNull /\ ~larg.resultNull
    /\ spc = "done" /\ sarg.playerNull
    /\ \E f \in Facets : stored[f] # <<playerVer>>

====
